---- MODULE Spec2Model ----
(***************************************************************************)
(* Model of order.go (package goshopify): the cursor-based pagination      *)
(* walker OrderServiceOp.ListAll / ListWithPagination / List, and the      *)
(* tolerant JSON decoders LineItem.UnmarshalJSON and                       *)
(* ShippingLines.UnmarshalJSON.                                            *)
(***************************************************************************)
EXTENDS Integers, Sequences, FiniteSets, TLC

(***************************************************************************)
(* Bounds of the model.                                                    *)
(***************************************************************************)
\* page fetches one ListAll call may issue when it runs alone
MaxFetches == 3
\* page fetches each ListAll call may issue when two calls run concurrently
MaxConcurrentFetches == 2

(***************************************************************************)
(* Values.                                                                 *)
(***************************************************************************)
\* Go's nil for an interface{} (options) value
Nil == "nil"
\* Go's nil error
NoErr == "noerr"
\* a nil *Pagination
NilPagination == [isnil |-> TRUE, NextPageOptions |-> Nil]

\* the ListAll calls (callers) of the model
Calls == {"A", "B"}
\* the caller of the specifications with one ListAll call
SingleCall == {"A"}
\* the options value a caller hands to ListAll
InitialOptions == [A |-> "optA", B |-> "optB"]
\* the next-page options values the client can produce from a Link header
Cursors == {"c1", "c2"}
\* the errors the client can return
Errors == {"e1", "e2"}
\* the record sequences a page (OrdersResource.Orders) can hold
Pages == {<<>>, <<1>>, <<2, 1>>}
\* what the resource can hold when the client call failed
ErrPages == {<<>>, <<2>>}

\* const ordersBasePath
ordersBasePath == "orders"

\* a Go slice result: nil or a (possibly empty) sequence
NilSlice == [isnil |-> TRUE, elems |-> <<>>]
Slice(s) == [isnil |-> FALSE, elems |-> s]

\* *Pagination values the client returns together with a nil error
Paginations == {[isnil |-> FALSE, NextPageOptions |-> n] : n \in {Nil} \cup Cursors}

\* s.client.ListWithPagination(ctx, path, resource, options): what the call
\* leaves in resource.Orders and what it returns, for a client that returns
\* page metadata with every nil error
ClientResponses ==
    {[orders |-> o, pagination |-> pg, err |-> NoErr] : o \in Pages, pg \in Paginations}
    \cup {[orders |-> o, pagination |-> NilPagination, err |-> e] : o \in ErrPages, e \in Errors}

\* the same call for a client that may return (nil, nil)
ClientResponsesNoMeta ==
    {[orders |-> o, pagination |-> NilPagination, err |-> NoErr] : o \in Pages}

VARIABLES
    pc,         \* per ListAll call: "idle", "call", "wait", "returned", "panic"
    options,    \* per call: the local variable options
    collector,  \* per call: the local variable collector
    ret,        \* per call: the returned ([]Order, error)
    issued,     \* per call: number of client calls started
    inflight,   \* client calls started and not yet returned
    log,        \* per call: the completed client calls, request and response
    cancelled,  \* per call: ctx.Done() is closed
    lineItem,   \* per record: the LineItem a decode call writes to
    lastDoc,    \* per record: the JSON document of the last decode call
    decodeErr,  \* per record: the error the last decode call returned
    shippingLine, \* per record: the ShippingLines a decode call writes to
    slDoc,      \* per record: the JSON document of the last ShippingLines decode
    slErr,      \* per record: the error the last ShippingLines decode returned
    roundTrip,  \* the encode/decode round trips that led to the "fresh" LineItem
    listOp,     \* the single-page call: List or ListWithPagination, its options, its position
    listRequests, \* the client calls the single-page call made
    listResult  \* the client's response to it and what the call returned

walkerVars == <<pc, options, collector, ret, issued, inflight, log, cancelled>>

lineItemVars == <<lineItem, lastDoc, decodeErr, roundTrip>>

shippingVars == <<shippingLine, slDoc, slErr>>

decoderVars == <<lineItemVars, shippingVars>>

pageVars == <<listOp, listRequests, listResult>>

vars == <<pc, options, collector, ret, issued, inflight, log, cancelled,
          lineItem, lastDoc, decodeErr, shippingLine, slDoc, slErr, roundTrip,
          listOp, listRequests, listResult>>

(***************************************************************************)
(* OrderServiceOp.ListWithPagination                                       *)
(***************************************************************************)
\* path := fmt.Sprintf("%s.json", ordersBasePath)
OrdersPath == <<ordersBasePath, ".json">>

\* the request ListWithPagination hands to the client
ClientRequest(p, seq, opts) ==
    [call |-> p, seq |-> seq, path |-> OrdersPath, options |-> opts]

\* a version that hands out the resource also when the client failed
ListWithPagination_KeepsOrders(resp) ==
    [entities |-> Slice(resp.orders), pagination |-> resp.pagination, err |-> resp.err]

\* what ListWithPagination returns for a client response
ListWithPagination(resp) ==
    IF resp.err # NoErr
    THEN [entities |-> NilSlice, pagination |-> NilPagination, err |-> resp.err]
    ELSE [entities |-> Slice(resp.orders), pagination |-> resp.pagination, err |-> NoErr]

(***************************************************************************)
(* OrderServiceOp.List                                                     *)
(***************************************************************************)
\* what List returns for a client response: orders, _, err := ...
List(resp) ==
    LET r == ListWithPagination(resp) IN
    IF r.err # NoErr
    THEN [orders |-> NilSlice, err |-> r.err]
    ELSE [orders |-> r.entities, err |-> NoErr]

\* the options values handed to a single-page call: nil, the caller's own
\* options, or next-page options of an earlier page
PageOptions == {Nil, "optA", "optB", "c1"}

\* the single-page operations
PageOps == {"List", "ListWithPagination"}

\* no single-page call was made yet
NoPageCall == [op |-> "none", options |-> Nil, pc |-> "idle"]
NoPageResult == [resp |-> Nil, out |-> Nil]

(***************************************************************************)
(* OrderServiceOp.ListAll                                                  *)
(***************************************************************************)
\* a loop that starts the next client call while one is still in flight
CanFetch_Prefetch(p) == pc[p] \in {"call", "wait"}

\* the blocking call of line 624: the loop issues a client call only from the
\* top of an iteration
CanFetch(p) == pc[p] = "call"

\* the new page put in front of the accumulated records
AppendEntities_Prepend(coll, entities) == entities.elems \o coll

\* collector = append(collector, entities...)
AppendEntities(coll, entities) == coll \o entities.elems

\* a loop that also stops at a page without records
ShouldBreak_OnEmptyPage(coll, entities, pagination) ==
    pagination.NextPageOptions = Nil \/ Len(entities.elems) = 0

\* a loop that also stops once two records are collected
ShouldBreak_Ceiling(coll, entities, pagination) ==
    pagination.NextPageOptions = Nil \/ Len(coll) >= 2

\* if pagination.NextPageOptions == nil { break }
ShouldBreak(coll, entities, pagination) == pagination.NextPageOptions = Nil

\* a loop that keeps the options it was called with
NextCallOptions_Kept(opts, pagination) == opts

\* options = pagination.NextPageOptions
NextCallOptions(opts, pagination) == pagination.NextPageOptions

\* the error return of List: return nil, err
ReturnOnError_Nil(coll, err) == [orders |-> NilSlice, err |-> err]

\* return collector, err
ReturnOnError(coll, err) == [orders |-> Slice(coll), err |-> err]

\* return collector, nil
ReturnOnBreak(coll) == [orders |-> Slice(coll), err |-> NoErr]

\* a loop that fetches again after an error
AfterError_Retry == "call"

\* where the call goes when the page fetch returned an error
AfterError == "returned"

\* one accumulator shared by all calls
StoreCollector_Shared(all, p, coll) == [q \in DOMAIN all |-> coll]

\* the accumulator of call p after appending: each call has its own
StoreCollector(all, p, coll) == [all EXCEPT ![p] = coll]


(***************************************************************************)
(* JSON documents and the Go values encoding/json decodes them to.         *)
(***************************************************************************)
JNull == [t |-> "null"]
JStr(x) == [t |-> "str", s |-> x]
JNum(x) == [t |-> "num", n |-> x]
JBool(x) == [t |-> "bool", b |-> x]
JArr(x) == [t |-> "arr", a |-> x]
JObj(x) == [t |-> "obj", o |-> x]
\* bytes that are not a JSON text
Malformed == [t |-> "malformed"]
\* no document: the record was not decoded yet
NoDoc == [t |-> "none"]

\* the first byte of the encoding of a JSON value
FirstByte(j) ==
    CASE j.t = "arr" -> "["
      [] j.t = "obj" -> "{"
      [] j.t = "str" -> "\""
      [] j.t = "null" -> "n"
      [] j.t = "bool" -> (IF j.b THEN "t" ELSE "f")
      [] j.t = "num" -> "digit"

\* a json.RawMessage: empty, or the bytes of one JSON value
EmptyRaw == [len |-> 0, first |-> "", json |-> NoDoc]
RawOf(j) == [len |-> 1, first |-> FirstByte(j), json |-> j]

\* the errors of encoding/json
SyntaxError == "SyntaxError"
UnmarshalTypeError == "UnmarshalTypeError"
\* no error is returned: the call panics with a nil pointer dereference
NilDereference == "panic: nil pointer dereference"

\* Go values held by an interface{}
GoNil == [g |-> "nil"]
GoString(x) == [g |-> "string", s |-> x]
GoFloat64(x) == [g |-> "float64", n |-> x]
GoBool(x) == [g |-> "bool", b |-> x]

\* json.Unmarshal into an interface{}
RECURSIVE DecodeInterface(_)
DecodeInterface(j) ==
    CASE j.t = "null" -> GoNil
      [] j.t = "str" -> GoString(j.s)
      [] j.t = "num" -> GoFloat64(j.n)
      [] j.t = "bool" -> GoBool(j.b)
      [] j.t = "arr" -> [g |-> "slice", a |-> [i \in 1..Len(j.a) |-> DecodeInterface(j.a[i])]]
      [] j.t = "obj" -> [g |-> "map", m |-> [k \in DOMAIN j.o |-> DecodeInterface(j.o[k])]]

\* the first error of two decode steps (encoding/json keeps the first one)
FirstErr(e1, e2) == IF e1 # NoErr THEN e1 ELSE e2

\* json.Unmarshal of a value into a string field
DecodeString(j, old) ==
    CASE j.t = "str" -> [val |-> j.s, err |-> NoErr]
      [] j.t = "null" -> [val |-> old, err |-> NoErr]
      [] OTHER -> [val |-> old, err |-> UnmarshalTypeError]

(***************************************************************************)
(* type NoteAttribute struct { Name string; Value interface{} }            *)
(***************************************************************************)
ZeroNoteAttribute == [Name |-> "", Value |-> GoNil]

\* json.Unmarshal of a value into a NoteAttribute holding old
DecodeNoteAttribute(j, old) ==
    CASE j.t = "null" -> [val |-> old, err |-> NoErr]
      [] j.t = "obj" ->
            LET nm == IF "name" \in DOMAIN j.o
                      THEN DecodeString(j.o["name"], old.Name)
                      ELSE [val |-> old.Name, err |-> NoErr]
                vl == IF "value" \in DOMAIN j.o
                      THEN DecodeInterface(j.o["value"])
                      ELSE old.Value
            IN  [val |-> [Name |-> nm.val, Value |-> vl], err |-> nm.err]
      [] OTHER -> [val |-> old, err |-> UnmarshalTypeError]

\* the first error among the decoded elements
RECURSIVE FirstErrOf(_, _)
FirstErrOf(rs, k) ==
    IF k > Len(rs) THEN NoErr ELSE FirstErr(rs[k].err, FirstErrOf(rs, k + 1))

\* the entries of s that are not empty pairs
RECURSIVE WithoutEmptyPairs(_)
WithoutEmptyPairs(s) ==
    IF s = <<>> THEN <<>>
    ELSE IF s[1].Name = "" /\ s[1].Value = GoNil
    THEN WithoutEmptyPairs(Tail(s))
    ELSE <<s[1]>> \o WithoutEmptyPairs(Tail(s))

\* an array decode that applies the empty-pair rule to every element
DecodeNoteAttributes_Collapsing(j) ==
    CASE j.t = "null" -> [val |-> NilSlice, err |-> NoErr]
      [] j.t = "arr" ->
            LET rs == [i \in 1..Len(j.a) |-> DecodeNoteAttribute(j.a[i], ZeroNoteAttribute)]
            IN  [val |-> Slice(WithoutEmptyPairs([i \in 1..Len(j.a) |-> rs[i].val])),
                 err |-> FirstErrOf(rs, 1)]
      [] OTHER -> [val |-> NilSlice, err |-> UnmarshalTypeError]

\* json.Unmarshal of a value into a nil []NoteAttribute
DecodeNoteAttributes(j) ==
    CASE j.t = "null" -> [val |-> NilSlice, err |-> NoErr]
      [] j.t = "arr" ->
            LET rs == [i \in 1..Len(j.a) |-> DecodeNoteAttribute(j.a[i], ZeroNoteAttribute)]
            IN  [val |-> Slice([i \in 1..Len(j.a) |-> rs[i].val]), err |-> FirstErrOf(rs, 1)]
      [] OTHER -> [val |-> NilSlice, err |-> UnmarshalTypeError]

(***************************************************************************)
(* LineItem.UnmarshalJSON                                                  *)
(***************************************************************************)
\* the fields of LineItem the model keeps: one ordinary field and Properties
ZeroLineItem == [Title |-> "", Properties |-> NilSlice]

\* json.Unmarshal(data, &aux): the ordinary fields go to li through the
\* embedded alias, the raw "properties" value goes to aux.Properties; aux is
\* a pointer, and the JSON text null sets the pointer itself to nil
DecodeAux(data, li) ==
    CASE data.t = "malformed" -> [li |-> li, raw |-> EmptyRaw, err |-> SyntaxError, isnil |-> FALSE]
      [] data.t = "null" -> [li |-> li, raw |-> EmptyRaw, err |-> NoErr, isnil |-> TRUE]
      [] data.t = "obj" ->
            LET ti == IF "title" \in DOMAIN data.o
                      THEN DecodeString(data.o["title"], li.Title)
                      ELSE [val |-> li.Title, err |-> NoErr]
                raw == IF "properties" \in DOMAIN data.o
                       THEN RawOf(data.o["properties"])
                       ELSE EmptyRaw
            IN  [li |-> [li EXCEPT !.Title = ti.val], raw |-> raw, err |-> ti.err, isnil |-> FALSE]
      [] OTHER -> [li |-> li, raw |-> EmptyRaw, err |-> UnmarshalTypeError, isnil |-> FALSE]

\* a decoder without the length test
IsAbsent_Never(raw) == FALSE

\* len(aux.Properties) == 0
IsAbsent(raw) == raw.len = 0

\* aux.Properties[0] == '['
IsArrayForm(raw) == raw.first = "["

\* the test with || in place of &&
IsEmptyPair_Either(p) == p.Name = "" \/ p.Value = GoNil

\* p.Name == "" && p.Value == nil
IsEmptyPair(p) == p.Name = "" /\ p.Value = GoNil

\* a decoder without the empty-object rule
FromSinglePair_NoCollapse(p) == Slice(<<p>>)

\* the else branch of lines 446-457: Properties from a decoded single pair
FromSinglePair(p) == IF IsEmptyPair(p) THEN NilSlice ELSE Slice(<<p>>)

\* func (li *LineItem) UnmarshalJSON(data []byte) error
LineItemUnmarshalJSON(li, data) ==
    LET aux == DecodeAux(data, li) IN
    IF aux.err # NoErr THEN [li |-> aux.li, err |-> aux.err]
    ELSE IF aux.isnil THEN [li |-> aux.li, err |-> NilDereference]
    ELSE IF IsAbsent(aux.raw) THEN [li |-> aux.li, err |-> NoErr]
    ELSE IF IsArrayForm(aux.raw)
    THEN LET p == DecodeNoteAttributes(aux.raw.json) IN
         IF p.err # NoErr THEN [li |-> aux.li, err |-> p.err]
         ELSE [li |-> [aux.li EXCEPT !.Properties = p.val], err |-> NoErr]
    ELSE LET p == DecodeNoteAttribute(aux.raw.json, ZeroNoteAttribute) IN
         IF p.err # NoErr THEN [li |-> aux.li, err |-> p.err]
         ELSE [li |-> [aux.li EXCEPT !.Properties = FromSinglePair(p.val)], err |-> NoErr]

(***************************************************************************)
(* json.Marshal of a LineItem: the type has no MarshalJSON, so the struct  *)
(* tags decide; every modelled field carries omitempty.                    *)
(***************************************************************************)
\* json.Marshal of a value held by an interface{}
RECURSIVE MarshalInterface(_)
MarshalInterface(x) ==
    CASE x.g = "nil" -> JNull
      [] x.g = "string" -> JStr(x.s)
      [] x.g = "float64" -> JNum(x.n)
      [] x.g = "bool" -> JBool(x.b)
      [] x.g = "slice" -> JArr([i \in 1..Len(x.a) |-> MarshalInterface(x.a[i])])
      [] x.g = "map" -> JObj([k \in DOMAIN x.m |-> MarshalInterface(x.m[k])])

\* omitempty: a string is left out when "", an interface{} when nil, a slice
\* when its length is 0
MarshalNoteAttribute(p) ==
    JObj([k \in (IF p.Name = "" THEN {} ELSE {"name"})
                \cup (IF p.Value = GoNil THEN {} ELSE {"value"})
            |-> IF k = "name" THEN JStr(p.Name) ELSE MarshalInterface(p.Value)])

MarshalLineItem(li) ==
    JObj([k \in (IF li.Title = "" THEN {} ELSE {"title"})
                \cup (IF Len(li.Properties.elems) = 0 THEN {} ELSE {"properties"})
            |-> IF k = "title" THEN JStr(li.Title)
                ELSE JArr([i \in 1..Len(li.Properties.elems)
                              |-> MarshalNoteAttribute(li.Properties.elems[i])])])

(***************************************************************************)
(* ShippingLines.UnmarshalJSON                                             *)
(***************************************************************************)
\* the decimal digit d as a character
DigitChar(d) ==
    CASE d = 0 -> "0" [] d = 1 -> "1" [] d = 2 -> "2" [] d = 3 -> "3" [] d = 4 -> "4"
      [] d = 5 -> "5" [] d = 6 -> "6" [] d = 7 -> "7" [] d = 8 -> "8" [] d = 9 -> "9"

\* the plain decimal numeral of a natural number
RECURSIVE Decimal(_)
Decimal(n) ==
    IF n < 10 THEN DigitChar(n) ELSE Decimal(n \div 10) \o DigitChar(n % 10)

\* the numeral of m with a decimal point after its first digit
RECURSIVE DecimalWithPoint(_)
DecimalWithPoint(m) ==
    IF m < 10 THEN DigitChar(m)
    ELSE (IF m \div 10 < 10 THEN DigitChar(m \div 10) \o "." ELSE DecimalWithPoint(m \div 10))
         \o DigitChar(m % 10)

\* n without its trailing zeros: the shortest digits of the float64 n
RECURSIVE StripZeros(_)
StripZeros(n) == IF n > 0 /\ n % 10 = 0 THEN StripZeros(n \div 10) ELSE n

\* the exponent at which the shortest %g format switches to %e
ShortestEprec == 6

\* fmt's %v of a float64 holding the natural number n: strconv's shortest %g
FormatFloat(n) ==
    LET exp == Len(Decimal(n)) - 1 IN
    IF exp >= ShortestEprec
    THEN DecimalWithPoint(StripZeros(n)) \o "e+" \o (IF exp < 10 THEN "0" ELSE "") \o Decimal(exp)
    ELSE Decimal(n)

\* fmt.Sprintf("%v", x) for the values a JSON scalar decodes to
SprintfV(x) ==
    CASE x.g = "string" -> x.s
      [] x.g = "float64" -> FormatFloat(x.n)
      [] x.g = "bool" -> (IF x.b THEN "true" ELSE "false")

\* what fmt.Sprintf("%v", nil) would give
FromNil_Sprintf == "<nil>"

\* case nil: sl.RequestedFulfillmentServiceId = ""
FromNil == ""

\* the fields of ShippingLines the model keeps
ZeroShippingLines == [Title |-> "", RequestedFulfillmentServiceId |-> ""]

\* json.Unmarshal(data, &aux): the ordinary fields go to sl through the
\* embedded alias, the id goes to the interface{} field of aux; aux is a
\* pointer, and the JSON text null sets the pointer itself to nil
DecodeShippingAux(data, sl) ==
    CASE data.t = "malformed" -> [sl |-> sl, id |-> GoNil, err |-> SyntaxError, isnil |-> FALSE]
      [] data.t = "null" -> [sl |-> sl, id |-> GoNil, err |-> NoErr, isnil |-> TRUE]
      [] data.t = "obj" ->
            LET ti == IF "title" \in DOMAIN data.o
                      THEN DecodeString(data.o["title"], sl.Title)
                      ELSE [val |-> sl.Title, err |-> NoErr]
                id == IF "requested_fulfillment_service_id" \in DOMAIN data.o
                      THEN DecodeInterface(data.o["requested_fulfillment_service_id"])
                      ELSE GoNil
            IN  [sl |-> [sl EXCEPT !.Title = ti.val], id |-> id, err |-> ti.err, isnil |-> FALSE]
      [] OTHER -> [sl |-> sl, id |-> GoNil, err |-> UnmarshalTypeError, isnil |-> FALSE]

\* func (sl *ShippingLines) UnmarshalJSON(data []byte) error
ShippingLinesUnmarshalJSON(sl, data) ==
    LET aux == DecodeShippingAux(data, sl) IN
    IF aux.err # NoErr THEN [sl |-> aux.sl, err |-> aux.err]
    ELSE IF aux.isnil THEN [sl |-> aux.sl, err |-> NilDereference]
    ELSE IF aux.id = GoNil
    THEN [sl |-> [aux.sl EXCEPT !.RequestedFulfillmentServiceId = FromNil], err |-> NoErr]
    ELSE [sl |-> [aux.sl EXCEPT !.RequestedFulfillmentServiceId = SprintfV(aux.id)], err |-> NoErr]

\* the values of the "requested_fulfillment_service_id" member
ServiceIdValues ==
    {JNull, JStr("abc"), JStr(""), JStr("42"), JNum(0), JNum(42), JNum(999999),
     JNum(1000000), JNum(123456789), JBool(TRUE)}

\* the documents handed to ShippingLines.UnmarshalJSON
ShippingDocs ==
    {JObj([title |-> JStr("t"), requested_fulfillment_service_id |-> v]) : v \in ServiceIdValues}
    \cup {JObj([title |-> JStr("u")]),
          JObj([title |-> JNum(1), requested_fulfillment_service_id |-> JStr("abc")]),
          JNull, JStr("x"), Malformed}

(***************************************************************************)
(* The documents the model decodes.                                        *)
(***************************************************************************)
\* the "name" member of a property object: absent or one of these values
NameMembers == {<<>>, <<JStr("")>>, <<JStr("a")>>, <<JNum(5)>>}
\* the "value" member of a property object: absent or one of these values
ValueMembers == {<<>>, <<JNull>>, <<JStr("1")>>, <<JNum(3)>>}

\* the JSON object with the given optional members
PropertyObject(nm, vl) ==
    JObj([k \in (IF nm = <<>> THEN {} ELSE {"name"}) \cup (IF vl = <<>> THEN {} ELSE {"value"})
            |-> IF k = "name" THEN nm[1] ELSE vl[1]])

PropertyObjects == {PropertyObject(nm, vl) : nm \in NameMembers, vl \in ValueMembers}

\* longer arrays and arrays with members that are no objects
OtherArrays ==
    LET a1 == PropertyObject(<<JStr("a")>>, <<JStr("1")>>)
        b2 == PropertyObject(<<JStr("b")>>, <<JNum(3)>>)
        e0 == PropertyObject(<<>>, <<>>)
    IN  {<<>>, <<a1, b2>>, <<b2, a1>>, <<e0, a1>>, <<a1, a1>>, <<JNull>>,
         <<JStr("x")>>, <<a1, JNum(7)>>}

\* the values of the "properties" member
PropertiesValues ==
    PropertyObjects
    \cup {JArr(<<o>>) : o \in PropertyObjects}
    \cup {JArr(x) : x \in OtherArrays}
    \cup {JNull, JStr("x"), JNum(7), JBool(TRUE)}

\* the documents handed to LineItem.UnmarshalJSON
LineItemDocs ==
    {JObj([title |-> JStr("t"), properties |-> v]) : v \in PropertiesValues}
    \cup {JObj([title |-> JStr("u")]),
          JObj([title |-> JNum(1), properties |-> JArr(<<PropertyObject(<<JStr("a")>>, <<JStr("1")>>)>>)]),
          JNull, JStr("x"), Malformed}

\* the documents decoded before a round trip starts
RoundTripDocs ==
    {JObj([title |-> JStr("t"), properties |-> v]) :
        v \in {PropertyObject(<<>>, <<>>),
               PropertyObject(<<JStr("a")>>, <<JStr("1")>>),
               JArr(<<>>),
               JArr(<<PropertyObject(<<JStr("a")>>, <<JStr("1")>>)>>),
               JArr(<<PropertyObject(<<>>, <<>>), PropertyObject(<<JStr("b")>>, <<JNum(3)>>)>>),
               JNull}}
    \cup {JObj([title |-> JStr("u")]), JObj(<<>>), Malformed}

\* no round trip led to the "fresh" LineItem
NoRoundTrip == [n |-> 0, origin |-> ZeroLineItem]

\* the number of round trips the model follows
MaxRoundTrips == 3

\* the records decode calls write to: "fresh" is a new LineItem for every
\* call, "reused" keeps what earlier calls left in it
Records == {"fresh", "reused"}

Init ==
    /\ lineItem = [r \in Records |-> ZeroLineItem]
    /\ lastDoc = [r \in Records |-> NoDoc]
    /\ decodeErr = [r \in Records |-> NoErr]
    /\ shippingLine = [r \in Records |-> ZeroShippingLines]
    /\ slDoc = [r \in Records |-> NoDoc]
    /\ slErr = [r \in Records |-> NoErr]
    /\ roundTrip = NoRoundTrip
    /\ listOp = NoPageCall
    /\ listRequests = <<>>
    /\ listResult = NoPageResult
    /\ pc = [p \in Calls |-> "idle"]
    /\ options = [p \in Calls |-> Nil]
    /\ collector = [p \in Calls |-> <<>>]
    /\ ret = [p \in Calls |-> [orders |-> NilSlice, err |-> NoErr]]
    /\ issued = [p \in Calls |-> 0]
    /\ inflight = {}
    /\ log = [p \in Calls |-> <<>>]
    /\ cancelled = [p \in Calls |-> FALSE]

\* entry of ListAll: the parameter options and collector := []Order{}
ListAllBegin(p) ==
    /\ pc[p] = "idle"
    /\ pc' = [pc EXCEPT ![p] = "call"]
    /\ options' = [options EXCEPT ![p] = InitialOptions[p]]
    /\ collector' = [collector EXCEPT ![p] = <<>>]
    /\ UNCHANGED <<ret, issued, inflight, log, cancelled>>

\* line 624 down to line 646: the client call is started
ListAllFetch(p, cap) ==
    /\ CanFetch(p)
    /\ issued[p] < cap
    /\ issued' = [issued EXCEPT ![p] = @ + 1]
    /\ inflight' = inflight \cup {ClientRequest(p, issued[p] + 1, options[p])}
    /\ pc' = [pc EXCEPT ![p] = "wait"]
    /\ UNCHANGED <<options, collector, ret, log, cancelled>>

\* lines 647-651 and 626-639: the client call returns resp and the loop body
\* runs up to the next call or the return
ListAllResume(p, req, resp) ==
    LET r == ListWithPagination(resp)
        coll == AppendEntities(collector[p], r.entities)
    IN  /\ req \in inflight
        /\ req.call = p
        /\ pc[p] = "wait"
        /\ inflight' = inflight \ {req}
        /\ log' = [log EXCEPT ![p] = Append(@, [req |-> req, resp |-> resp])]
        /\ IF r.err # NoErr
           THEN /\ pc' = [pc EXCEPT ![p] = AfterError]
                /\ ret' = [ret EXCEPT ![p] = ReturnOnError(collector[p], r.err)]
                /\ UNCHANGED <<options, collector>>
           ELSE IF r.pagination.isnil
           THEN \* pagination.NextPageOptions on a nil pointer
                /\ pc' = [pc EXCEPT ![p] = "panic"]
                /\ collector' = StoreCollector(collector, p, coll)
                /\ UNCHANGED <<options, ret>>
           ELSE IF ShouldBreak(coll, r.entities, r.pagination)
           THEN /\ pc' = [pc EXCEPT ![p] = "returned"]
                /\ collector' = StoreCollector(collector, p, coll)
                /\ ret' = [ret EXCEPT ![p] = ReturnOnBreak(coll)]
                /\ UNCHANGED options
           ELSE /\ pc' = [pc EXCEPT ![p] = "call"]
                /\ collector' = StoreCollector(collector, p, coll)
                /\ options' = [options EXCEPT ![p] = NextCallOptions(options[p], r.pagination)]
                /\ UNCHANGED ret
        /\ UNCHANGED <<issued, cancelled>>

\* the client answers one started call of p
ClientReturns(p) ==
    \E req \in inflight : \E resp \in ClientResponses : ListAllResume(p, req, resp)

\* a client that may answer (nil, nil)
ClientReturnsNoMeta(p) ==
    \E req \in inflight : \E resp \in ClientResponsesNoMeta : ListAllResume(p, req, resp)

\* the caller's context is cancelled while the call runs
Cancel(p) ==
    /\ pc[p] \in {"call", "wait"}
    /\ ~cancelled[p]
    /\ cancelled' = [cancelled EXCEPT ![p] = TRUE]
    /\ UNCHANGED <<pc, options, collector, ret, issued, inflight, log>>

Begin == (\E p \in SingleCall : ListAllBegin(p)) /\ UNCHANGED <<decoderVars, pageVars>>
Fetch == (\E p \in SingleCall : ListAllFetch(p, MaxFetches)) /\ UNCHANGED <<decoderVars, pageVars>>
Return == (\E p \in SingleCall : ClientReturns(p)) /\ UNCHANGED <<decoderVars, pageVars>>

Next == Begin \/ Fetch \/ Return

Spec == Init /\ [][Next]_vars

\* one ListAll call on a client that may also return neither metadata nor error
ReturnNoMeta == (\E p \in SingleCall : ClientReturnsNoMeta(p)) /\ UNCHANGED <<decoderVars, pageVars>>

NextAnyClient == Begin \/ Fetch \/ Return \/ ReturnNoMeta

SpecAnyClient == Init /\ [][NextAnyClient]_vars

\* the goroutine of the call keeps running and every client call returns
SpecFair == Init /\ [][Next]_vars /\ WF_vars(Fetch) /\ WF_vars(Return)

\* one ListAll call whose context may be cancelled at any time
CancelCall == (\E p \in SingleCall : Cancel(p)) /\ UNCHANGED <<decoderVars, pageVars>>

NextCancel == Begin \/ Fetch \/ Return \/ CancelCall

SpecCancel == Init /\ [][NextCancel]_vars

\* two ListAll calls on the same OrderServiceOp, interleaved in any order
BeginAny == (\E p \in Calls : ListAllBegin(p)) /\ UNCHANGED <<decoderVars, pageVars>>
FetchAny == (\E p \in Calls : ListAllFetch(p, MaxConcurrentFetches)) /\ UNCHANGED <<decoderVars, pageVars>>
ReturnAny == (\E p \in Calls : ClientReturns(p)) /\ UNCHANGED <<decoderVars, pageVars>>

NextConcurrent == BeginAny \/ FetchAny \/ ReturnAny

SpecConcurrent == Init /\ [][NextConcurrent]_vars

\* a caller invokes List or ListWithPagination with opts: the call builds
\* the path and the resource and calls the client
PageCall(op, opts) ==
    /\ listOp.pc # "wait"
    /\ listOp' = [op |-> op, options |-> opts, pc |-> "wait"]
    /\ listRequests' = <<ClientRequest("page", 1, opts)>>
    /\ listResult' = NoPageResult
    /\ UNCHANGED <<walkerVars, decoderVars>>

\* the client returns and the call returns what it makes of the response
PageReturn(resp) ==
    /\ listOp.pc = "wait"
    /\ listOp' = [listOp EXCEPT !.pc = "returned"]
    /\ listResult' = [resp |-> resp,
                      out |-> IF listOp.op = "List" THEN List(resp) ELSE ListWithPagination(resp)]
    /\ UNCHANGED <<listRequests, walkerVars, decoderVars>>

CallPage == \E op \in PageOps, opts \in PageOptions : PageCall(op, opts)
ReturnPage == \E resp \in ClientResponses \cup ClientResponsesNoMeta : PageReturn(resp)

NextPage == CallPage \/ ReturnPage

SpecPage == Init /\ [][NextPage]_vars

\* json.Unmarshal(data, &li) with li a LineItem: a new one, or the reused one
UnmarshalLineItem(r, data) ==
    LET start == IF r = "fresh" THEN ZeroLineItem ELSE lineItem[r]
        res == LineItemUnmarshalJSON(start, data)
    IN  /\ lineItem' = [lineItem EXCEPT ![r] = res.li]
        /\ lastDoc' = [lastDoc EXCEPT ![r] = data]
        /\ decodeErr' = [decodeErr EXCEPT ![r] = res.err]
        /\ roundTrip' = IF r = "fresh" THEN NoRoundTrip ELSE roundTrip
        /\ UNCHANGED <<walkerVars, pageVars, shippingVars>>

DecodeFresh == \E data \in LineItemDocs : UnmarshalLineItem("fresh", data)
DecodeReused == \E data \in LineItemDocs : UnmarshalLineItem("reused", data)

NextDecode == DecodeFresh \/ DecodeReused

SpecDecode == Init /\ [][NextDecode]_vars

\* data, _ := json.Marshal(lineItem[r]) followed by json.Unmarshal(data, &li)
\* with li a new LineItem; a round trip of the "fresh" record continues the
\* chain of round trips that produced it
EncodeDecode(r) ==
    LET data == MarshalLineItem(lineItem[r])
        res == LineItemUnmarshalJSON(ZeroLineItem, data)
        continues == r = "fresh" /\ roundTrip.n > 0
    IN  /\ continues => roundTrip.n < MaxRoundTrips
        /\ lineItem' = [lineItem EXCEPT !["fresh"] = res.li]
        /\ lastDoc' = [lastDoc EXCEPT !["fresh"] = data]
        /\ decodeErr' = [decodeErr EXCEPT !["fresh"] = res.err]
        /\ roundTrip' = IF continues
                        THEN [roundTrip EXCEPT !.n = @ + 1]
                        ELSE [n |-> 1, origin |-> lineItem[r]]
        /\ UNCHANGED <<walkerVars, pageVars, shippingVars>>

DecodeFreshSample == \E data \in RoundTripDocs : UnmarshalLineItem("fresh", data)
DecodeReusedSample == \E data \in RoundTripDocs : UnmarshalLineItem("reused", data)
RoundTripFresh == EncodeDecode("fresh")
RoundTripReused == EncodeDecode("reused")

NextRoundTrip == DecodeFreshSample \/ DecodeReusedSample \/ RoundTripFresh \/ RoundTripReused

SpecRoundTrip == Init /\ [][NextRoundTrip]_vars

\* json.Unmarshal(data, &sl) with sl a ShippingLines: a new one, or the reused one
UnmarshalShippingLines(r, data) ==
    LET start == IF r = "fresh" THEN ZeroShippingLines ELSE shippingLine[r]
        res == ShippingLinesUnmarshalJSON(start, data)
    IN  /\ shippingLine' = [shippingLine EXCEPT ![r] = res.sl]
        /\ slDoc' = [slDoc EXCEPT ![r] = data]
        /\ slErr' = [slErr EXCEPT ![r] = res.err]
        /\ UNCHANGED <<walkerVars, pageVars, lineItemVars>>

ShippingFresh == \E data \in ShippingDocs : UnmarshalShippingLines("fresh", data)
ShippingReused == \E data \in ShippingDocs : UnmarshalShippingLines("reused", data)

NextShipping == ShippingFresh \/ ShippingReused

SpecShipping == Init /\ [][NextShipping]_vars

(***************************************************************************)
(* The completed page fetches of a call, as the client saw them.           *)
(***************************************************************************)
\* the k-th completed client call of p returned an error
FetchFailed(p, k) == log[p][k].resp.err # NoErr

\* the k-th completed client call of p returned a page with metadata
FetchSucceeded(p, k) ==
    /\ log[p][k].resp.err = NoErr
    /\ ~log[p][k].resp.pagination.isnil

\* the k-th page of p carries next-page options
HasNextPage(p, k) ==
    /\ FetchSucceeded(p, k)
    /\ log[p][k].resp.pagination.NextPageOptions # Nil

\* the k-th page of p is a successful page without next-page options
IsLastPage(p, k) ==
    /\ FetchSucceeded(p, k)
    /\ log[p][k].resp.pagination.NextPageOptions = Nil

\* the records of the first n pages served to a call, in arrival order
RECURSIVE ConcatPages(_, _)
ConcatPages(lg, n) ==
    IF n = 0 THEN <<>> ELSE ConcatPages(lg, n - 1) \o lg[n].resp.orders

\* the started and unanswered client calls of p
InFlightOf(p) == {r \in inflight : r.call = p}

(***************************************************************************)
(* C1. When every fetched page of a call succeeded and only the last one   *)
(* carries no next-page options, ListAll has returned, with a nil error,   *)
(* exactly the concatenation of the pages' records in arrival order.       *)
(***************************************************************************)
C1_ConcatenationInPageOrder ==
    \A p \in Calls :
        LET n == Len(log[p]) IN
        ( /\ n > 0
          /\ \A k \in 1..(n - 1) : HasNextPage(p, k)
          /\ IsLastPage(p, n) )
        => /\ pc[p] = "returned"
           /\ ret[p] = [orders |-> Slice(ConcatPages(log[p], n)), err |-> NoErr]

\* three pages <<2,1>>, <<>>, <<1>> were served and the call returned
C1_Witness ==
    /\ pc["A"] = "returned"
    /\ Len(log["A"]) = 3
    /\ log["A"][1].resp.orders = <<2, 1>>
    /\ log["A"][2].resp.orders = <<>>
    /\ ret["A"] = [orders |-> Slice(<<2, 1, 1>>), err |-> NoErr]

(***************************************************************************)
(* C2. When the k-th page fetch of a call fails, ListAll has returned the  *)
(* records of pages 1..k-1 in page order, as a non-nil slice, together     *)
(* with the error of that fetch.                                           *)
(***************************************************************************)
C2_PartialResultWithError ==
    \A p \in Calls : \A k \in 1..Len(log[p]) :
        FetchFailed(p, k)
        => /\ pc[p] = "returned"
           /\ ret[p].err = log[p][k].resp.err
           /\ ret[p].orders = Slice(ConcatPages(log[p], k - 1))

\* two successful pages with records, then error e2 on page 3
C2_Witness ==
    /\ Len(log["A"]) = 3
    /\ FetchFailed("A", 3)
    /\ log["A"][3].resp.orders = <<2>>
    /\ ret["A"] = [orders |-> Slice(<<1, 2, 1>>), err |-> "e2"]

(***************************************************************************)
(* C3. The first client call of a ListAll call carries the caller's        *)
(* options, call k+1 carries exactly the NextPageOptions returned by call  *)
(* k, and every call targets the orders collection path.                   *)
(***************************************************************************)
RequestFollowsCursor(p, r) ==
    /\ r.path = <<"orders", ".json">>
    /\ r.seq \in 1..(Len(log[p]) + 1)
    /\ r.options = IF r.seq = 1 THEN InitialOptions[p]
                   ELSE log[p][r.seq - 1].resp.pagination.NextPageOptions

C3_OptionsComeFromPreviousPage ==
    \A p \in Calls :
        /\ \A k \in 1..Len(log[p]) : log[p][k].req.seq = k /\ RequestFollowsCursor(p, log[p][k].req)
        /\ \A r \in InFlightOf(p) : RequestFollowsCursor(p, r)

\* the third call is in flight with the cursor c1 of page 2, page 1 gave c2
C3_Witness ==
    /\ Len(log["A"]) = 2
    /\ log["A"][1].resp.pagination.NextPageOptions = "c2"
    /\ log["A"][2].req.options = "c2"
    /\ log["A"][2].resp.pagination.NextPageOptions = "c1"
    /\ \E r \in inflight : r.call = "A" /\ r.seq = 3 /\ r.options = "c1"

(***************************************************************************)
(* C4. ListAll stops with success exactly at a successful page without     *)
(* next-page options: such a page is the last fetch of the call, and after *)
(* a successful page with next-page options the call is still running,     *)
(* also when the page has no records.                                      *)
(***************************************************************************)
C4_StopsExactlyAtLastPage ==
    \A p \in Calls :
        LET n == Len(log[p]) IN
        /\ \A k \in 1..n :
              IsLastPage(p, k)
              => k = n /\ issued[p] = k /\ pc[p] = "returned" /\ ret[p].err = NoErr
        /\ (pc[p] = "returned" /\ ret[p].err = NoErr) => (n > 0 /\ IsLastPage(p, n))
        /\ (n > 0 /\ HasNextPage(p, n)) => pc[p] \in {"call", "wait"}

\* an empty page with a cursor was followed by another fetch
C4_Witness ==
    /\ Len(log["A"]) = 2
    /\ log["A"][1].resp.orders = <<>>
    /\ HasNextPage("A", 1)
    /\ IsLastPage("A", 2)
    /\ pc["A"] = "returned"

(***************************************************************************)
(* C5. A failed page fetch is the last fetch of its call: no client call   *)
(* is started after it, and the call has returned a non-nil error.         *)
(***************************************************************************)
C5_NoRetryNoDowngrade ==
    \A p \in Calls : \A k \in 1..Len(log[p]) :
        FetchFailed(p, k)
        => /\ k = Len(log[p])
           /\ issued[p] = k
           /\ InFlightOf(p) = {}
           /\ pc[p] = "returned"
           /\ ret[p].err # NoErr

\* the second fetch failed after one successful page
C5_Witness ==
    /\ Len(log["A"]) = 2
    /\ HasNextPage("A", 1)
    /\ FetchFailed("A", 2)
    /\ issued["A"] = 2

(***************************************************************************)
(* C7. The page fetches of a call are sequential: at most one client call  *)
(* of a ListAll call is in flight, and it is the successor of the last     *)
(* completed fetch, all earlier fetches having returned pages with         *)
(* next-page options.                                                      *)
(***************************************************************************)
C7_SequentialFetches ==
    \A p \in Calls :
        /\ Cardinality(InFlightOf(p)) <= 1
        /\ (InFlightOf(p) # {}) <=> (pc[p] = "wait")
        /\ \A r \in InFlightOf(p) :
              /\ r.seq = Len(log[p]) + 1
              /\ issued[p] = r.seq
              /\ \A k \in 1..Len(log[p]) : HasNextPage(p, k)

\* the third fetch is in flight after two completed ones
C7_Witness ==
    /\ Len(log["A"]) = 2
    /\ \E r \in inflight : r.call = "A" /\ r.seq = 3

(***************************************************************************)
(* C6. ListAll has no page ceiling of its own: a call returns if and only  *)
(* if one of its fetches failed or returned a page without next-page       *)
(* options, and while every page carries next-page options a started call  *)
(* goes on to fetch every page the model allows and collects them all.     *)
(***************************************************************************)
TerminalFetch(p) ==
    \E k \in 1..Len(log[p]) : FetchFailed(p, k) \/ IsLastPage(p, k)

FetchedAllPages(p) ==
    /\ pc[p] = "call"
    /\ issued[p] = MaxFetches
    /\ Len(log[p]) = MaxFetches
    /\ \A k \in 1..MaxFetches : HasNextPage(p, k)
    /\ collector[p] = ConcatPages(log[p], MaxFetches)

C6_NoPageCeiling ==
    \A p \in SingleCall :
        /\ ([](pc[p] # "returned")) \/ (<>TerminalFetch(p))
        /\ ([](~TerminalFetch(p))) \/ (<>(pc[p] = "returned"))
        /\ (pc[p] # "idle") ~> (pc[p] = "returned" \/ FetchedAllPages(p))

\* every page had a cursor and the call is about to fetch again
C6_Witness == FetchedAllPages("A")

(***************************************************************************)
(* C8. When the context of a call is cancelled between two page fetches,   *)
(* the call starts no further client call: its next step is to return the  *)
(* accumulated records together with an error.                             *)
(***************************************************************************)
CancelledBetweenFetches(p) ==
    /\ cancelled[p]
    /\ pc[p] = "call"
    /\ Len(log[p]) > 0

C8_CancelCheckedBetweenFetches ==
    [][\A p \in Calls :
         CancelledBetweenFetches(p)
         => /\ issued'[p] = issued[p]
            /\ pc'[p] = "returned"
            /\ ret'[p].orders = Slice(collector[p])
            /\ ret'[p].err # NoErr]_vars

(***************************************************************************)
(* C9. Each of two interleaved ListAll calls is, at every moment, in the   *)
(* state a call running alone reaches on the same client responses: its    *)
(* accumulator, options and result come from its own pages only.           *)
(***************************************************************************)
\* ListAll run alone from response k of resps on
RECURSIVE RunAlone(_, _, _, _)
RunAlone(resps, k, opts, coll) ==
    IF k > Len(resps)
    THEN [pc |-> "call", options |-> opts, collector |-> coll,
          ret |-> [orders |-> NilSlice, err |-> NoErr]]
    ELSE LET r == ListWithPagination(resps[k]) IN
         IF r.err # NoErr
         THEN [pc |-> "returned", options |-> opts, collector |-> coll,
               ret |-> [orders |-> Slice(coll), err |-> r.err]]
         ELSE IF r.pagination.isnil
         THEN [pc |-> "panic", options |-> opts, collector |-> coll \o r.entities.elems,
               ret |-> [orders |-> NilSlice, err |-> NoErr]]
         ELSE IF r.pagination.NextPageOptions = Nil
         THEN [pc |-> "returned", options |-> opts, collector |-> coll \o r.entities.elems,
               ret |-> [orders |-> Slice(coll \o r.entities.elems), err |-> NoErr]]
         ELSE RunAlone(resps, k + 1, r.pagination.NextPageOptions, coll \o r.entities.elems)

ResponsesOf(p) == [k \in 1..Len(log[p]) |-> log[p][k].resp]

C9_ConcurrentCallsIndependent ==
    \A p \in Calls :
        pc[p] # "idle"
        => LET alone == RunAlone(ResponsesOf(p), 1, InitialOptions[p], <<>>) IN
           /\ collector[p] = alone.collector
           /\ options[p] = alone.options
           /\ ret[p] = alone.ret
           /\ (pc[p] = alone.pc \/ (pc[p] = "wait" /\ alone.pc = "call"))
           /\ \A r \in InFlightOf(p) : r.options = alone.options

\* both calls returned, their fetches interleaved, with different records
C9_Witness ==
    /\ pc["A"] = "returned" /\ pc["B"] = "returned"
    /\ Len(log["A"]) = 2 /\ Len(log["B"]) = 2
    /\ ret["A"].orders = Slice(<<1, 2, 1>>)
    /\ ret["B"].orders = Slice(<<2, 1>>)
    /\ log["A"][1].resp.pagination.NextPageOptions = "c1"
    /\ log["B"][1].resp.pagination.NextPageOptions = "c2"

(***************************************************************************)
(* The documents of the decode calls, as the caller wrote them.            *)
(***************************************************************************)
\* the document has a "properties" member
HasProperties(doc) == doc.t = "obj" /\ "properties" \in DOMAIN doc.o

\* the document doc with v as its "properties" member
WithProperties(doc, v) == JObj([doc.o EXCEPT !["properties"] = v])

\* a property object with a string name (if any) that has a non-empty name
\* or a value other than null
IsNonEmptyProperty(o) ==
    /\ o.t = "obj"
    /\ "name" \in DOMAIN o.o => o.o["name"].t = "str"
    /\ \/ "name" \in DOMAIN o.o /\ o.o["name"].s # ""
       \/ "value" \in DOMAIN o.o /\ o.o["value"].t # "null"

\* the (name, value) entry a property object stands for
EntryOf(o) ==
    [Name |-> IF "name" \in DOMAIN o.o THEN o.o["name"].s ELSE "",
     Value |-> IF "value" \in DOMAIN o.o
               THEN (CASE o.o["value"].t = "str" -> GoString(o.o["value"].s)
                       [] o.o["value"].t = "num" -> GoFloat64(o.o["value"].n)
                       [] o.o["value"].t = "null" -> GoNil)
               ELSE GoNil]

(***************************************************************************)
(* C10. A line item whose "properties" is one property object with a       *)
(* non-empty name or a non-null value decodes to the same property         *)
(* sequence as the same line item with the one-element array holding that  *)
(* object: both decode without error to exactly the entry (name, value).   *)
(***************************************************************************)
C10_ObjectFormEqualsArrayForm ==
    \A r1 \in Records, r2 \in Records :
        ( /\ HasProperties(lastDoc[r1])
          /\ IsNonEmptyProperty(lastDoc[r1].o["properties"])
          /\ lastDoc[r2] = WithProperties(lastDoc[r1], JArr(<<lastDoc[r1].o["properties"]>>)) )
        => /\ decodeErr[r1] = NoErr
           /\ decodeErr[r2] = NoErr
           /\ lineItem[r1].Properties = lineItem[r2].Properties
           /\ lineItem[r1].Properties = Slice(<<EntryOf(lastDoc[r1].o["properties"])>>)

\* {"name":"a","value":"1"} was decoded in object form and in array form
C10_Witness ==
    /\ lastDoc["reused"] = JObj([title |-> JStr("t"),
                                 properties |-> JObj([name |-> JStr("a"), value |-> JStr("1")])])
    /\ lastDoc["fresh"] = JObj([title |-> JStr("t"),
                                properties |-> JArr(<<JObj([name |-> JStr("a"), value |-> JStr("1")])>>)])
    /\ lineItem["reused"].Properties = Slice(<<[Name |-> "a", Value |-> GoString("1")]>>)
    /\ lineItem["fresh"].Properties = lineItem["reused"].Properties

(***************************************************************************)
(* C11. Decoded into a new line item, a document without a "properties"    *)
(* member gives, without error, an empty property sequence. In object      *)
(* form, into any line item, the result is empty exactly when the name is  *)
(* missing or "" and the value is missing or null; otherwise it is the one *)
(* entry (name, value), also when only a name or only a value is given.    *)
(***************************************************************************)
\* the ordinary fields of the document decode without error
HasGoodTitle(doc) ==
    doc.t = "obj" /\ ("title" \in DOMAIN doc.o => doc.o["title"].t \in {"str", "null"})

\* a property object whose name, if any, is a string
IsPropertyObject(o) ==
    o.t = "obj" /\ ("name" \in DOMAIN o.o => o.o["name"].t = "str")

C11_AbsentAndEmptyObject ==
    /\ ( /\ lastDoc["fresh"].t = "obj"
         /\ HasGoodTitle(lastDoc["fresh"])
         /\ ~HasProperties(lastDoc["fresh"]) )
       => /\ decodeErr["fresh"] = NoErr
          /\ lineItem["fresh"].Properties.elems = <<>>
    /\ \A r \in Records :
         ( /\ HasGoodTitle(lastDoc[r])
           /\ HasProperties(lastDoc[r])
           /\ IsPropertyObject(lastDoc[r].o["properties"]) )
         => LET o == lastDoc[r].o["properties"] IN
            /\ decodeErr[r] = NoErr
            /\ lineItem[r].Properties.elems =
                 IF IsNonEmptyProperty(o) THEN <<EntryOf(o)>> ELSE <<>>
            /\ Len(lineItem[r].Properties.elems) <= 1

\* {} decoded into the reused record, a name-only object into the new one
C11_Witness ==
    /\ lastDoc["reused"] = JObj([title |-> JStr("t"), properties |-> JObj(<<>>)])
    /\ lineItem["reused"].Properties = NilSlice
    /\ lastDoc["fresh"] = JObj([title |-> JStr("t"), properties |-> JObj([name |-> JStr("a")])])
    /\ lineItem["fresh"].Properties = Slice(<<[Name |-> "a", Value |-> GoNil]>>)

(***************************************************************************)
(* C12. A "properties" array of property objects decodes, without error,   *)
(* to the sequence of its (name, value) pairs: same length, same order,    *)
(* every element kept, empty pairs included; [] gives an empty sequence.   *)
(***************************************************************************)
IsPropertyArray(v) ==
    v.t = "arr" /\ \A i \in 1..Len(v.a) : IsPropertyObject(v.a[i])

C12_ArrayFormKeepsEveryElement ==
    \A r \in Records :
        ( /\ HasGoodTitle(lastDoc[r])
          /\ HasProperties(lastDoc[r])
          /\ IsPropertyArray(lastDoc[r].o["properties"]) )
        => LET a == lastDoc[r].o["properties"].a IN
           /\ decodeErr[r] = NoErr
           /\ lineItem[r].Properties = Slice([i \in 1..Len(a) |-> EntryOf(a[i])])

\* [{}, {"name":"a","value":"1"}] gave a blank entry followed by (a, "1")
C12_Witness ==
    /\ HasProperties(lastDoc["reused"])
    /\ lastDoc["reused"].o["properties"] =
          JArr(<<JObj(<<>>), JObj([name |-> JStr("a"), value |-> JStr("1")])>>)
    /\ lineItem["reused"].Properties =
          Slice(<<ZeroNoteAttribute, [Name |-> "a", Value |-> GoString("1")]>>)

(***************************************************************************)
(* C13. A "properties" value that is neither a property object nor an      *)
(* array of property objects (a string, a number, a boolean, null, or an   *)
(* object or array with a member of the wrong type) makes the decode       *)
(* return an error, as does a failure of the first decode stage; a decode  *)
(* that returns no error and no properties had "properties" absent or of   *)
(* a recognized shape.                                                     *)
(***************************************************************************)
\* an array element of the wrong type: neither an object nor null, or an
\* object with a name that is no string
IsBadElement(e) ==
    \/ e.t \in {"str", "num", "bool", "arr"}
    \/ e.t = "obj" /\ ~IsPropertyObject(e)

IsUnrecognizedShape(v) ==
    \/ v.t \in {"str", "num", "bool", "null"}
    \/ v.t = "obj" /\ ~IsPropertyObject(v)
    \/ v.t = "arr" /\ \E i \in 1..Len(v.a) : IsBadElement(v.a[i])

C13_UnrecognizedShapeIsAnError ==
    \A r \in Records :
        /\ (HasProperties(lastDoc[r]) /\ IsUnrecognizedShape(lastDoc[r].o["properties"]))
           => decodeErr[r] \in {SyntaxError, UnmarshalTypeError}
        /\ (lastDoc[r].t \in {"malformed", "str"} \/ (lastDoc[r].t = "obj" /\ ~HasGoodTitle(lastDoc[r])))
           => decodeErr[r] \in {SyntaxError, UnmarshalTypeError}
        /\ (r = "fresh" /\ lastDoc[r].t = "obj" /\ decodeErr[r] = NoErr
              /\ lineItem[r].Properties.elems = <<>>)
           => (HasProperties(lastDoc[r]) => lastDoc[r].o["properties"].t \in {"obj", "arr"})

(***************************************************************************)
(* The documents of the ShippingLines decode calls.                        *)
(***************************************************************************)
HasServiceId(doc) ==
    doc.t = "obj" /\ "requested_fulfillment_service_id" \in DOMAIN doc.o

ServiceIdOf(doc) == doc.o["requested_fulfillment_service_id"]

(***************************************************************************)
(* C14. Decoding a shipping line whose requested_fulfillment_service_id    *)
(* is JSON null gives the empty string, and a JSON string s gives exactly  *)
(* s, in both cases without error.                                         *)
(***************************************************************************)
C14_NullAndStringIds ==
    \A r \in Records :
        (HasGoodTitle(slDoc[r]) /\ HasServiceId(slDoc[r]))
        => /\ ServiceIdOf(slDoc[r]).t = "null"
              => slErr[r] = NoErr /\ shippingLine[r].RequestedFulfillmentServiceId = ""
           /\ ServiceIdOf(slDoc[r]).t = "str"
              => /\ slErr[r] = NoErr
                 /\ shippingLine[r].RequestedFulfillmentServiceId = ServiceIdOf(slDoc[r]).s

\* null decoded into the reused record and "abc" into a new one
C14_Witness ==
    /\ slDoc["reused"] = JObj([title |-> JStr("t"), requested_fulfillment_service_id |-> JNull])
    /\ shippingLine["reused"].RequestedFulfillmentServiceId = ""
    /\ slDoc["fresh"] = JObj([title |-> JStr("t"), requested_fulfillment_service_id |-> JStr("abc")])
    /\ shippingLine["fresh"].RequestedFulfillmentServiceId = "abc"

(***************************************************************************)
(* C15. A requested_fulfillment_service_id given as the JSON number of a   *)
(* non-negative integer n decodes to the plain decimal numeral of n.       *)
(***************************************************************************)
C15_IntegerIdsAsPlainNumerals ==
    \A r \in Records :
        ( /\ HasGoodTitle(slDoc[r])
          /\ HasServiceId(slDoc[r])
          /\ ServiceIdOf(slDoc[r]).t = "num" )
        => /\ slErr[r] = NoErr
           /\ shippingLine[r].RequestedFulfillmentServiceId = Decimal(ServiceIdOf(slDoc[r]).n)

(***************************************************************************)
(* C16. Encoding a line item whose property sequence is empty (nil or of   *)
(* length zero) and decoding the result into a new line item gives an      *)
(* empty property sequence and no error, and so does every further         *)
(* encode/decode of the result.                                            *)
(***************************************************************************)
C16_EmptyRoundTripIsStable ==
    (roundTrip.n > 0 /\ roundTrip.origin.Properties.elems = <<>>)
    => /\ decodeErr["fresh"] = NoErr
       /\ lineItem["fresh"].Properties.elems = <<>>
       /\ ~ HasProperties(lastDoc["fresh"])

\* the second round trip of a line item that held a zero-length, non-nil
\* property sequence
C16_Witness ==
    /\ roundTrip.n >= 2
    /\ roundTrip.origin.Properties = Slice(<<>>)
    /\ lastDoc["fresh"] = JObj([title |-> JStr("t")])
    /\ decodeErr["fresh"] = NoErr
    /\ lineItem["fresh"].Properties = NilSlice

(***************************************************************************)
(* The same document decoded into the new and into the reused record.      *)
(***************************************************************************)
\* the property sequence does not depend on what the LineItem held before
PropertiesMemoryless ==
    ( /\ lastDoc["fresh"] = lastDoc["reused"]
      /\ lastDoc["fresh"] # NoDoc
      /\ decodeErr["fresh"] = NoErr
      /\ decodeErr["reused"] = NoErr )
    => lineItem["fresh"].Properties.elems = lineItem["reused"].Properties.elems

\* the service id does not depend on what the ShippingLines held before
ServiceIdMemoryless ==
    ( /\ slDoc["fresh"] = slDoc["reused"]
      /\ slDoc["fresh"] # NoDoc
      /\ slErr["fresh"] = NoErr
      /\ slErr["reused"] = NoErr )
    => shippingLine["fresh"].RequestedFulfillmentServiceId
       = shippingLine["reused"].RequestedFulfillmentServiceId

(***************************************************************************)
(* C17. Each decode call is memoryless: a document that decodes without    *)
(* error gives the same property sequence (LineItem) and the same          *)
(* requested_fulfillment_service_id (ShippingLines) in a new record and in *)
(* a record populated by earlier calls, also when the field is absent from *)
(* the document.                                                           *)
(***************************************************************************)
C17_DecodeIsMemoryless == PropertiesMemoryless /\ ServiceIdMemoryless

(***************************************************************************)
(* C18. One ListWithPagination call makes exactly one client call, on the  *)
(* orders path and with the options it was given; on success it returns    *)
(* the page's records and the client's pagination value as received, on    *)
(* error no records, no pagination and the client's error.  List returns   *)
(* the same records without the pagination, and no records on error.       *)
(***************************************************************************)
C18_SinglePageCall ==
    /\ listOp.pc \in {"wait", "returned"}
       => /\ Len(listRequests) = 1
          /\ listRequests[1].path = <<"orders", ".json">>
          /\ listRequests[1].options = listOp.options
    /\ (listOp.pc = "returned" /\ listOp.op = "ListWithPagination")
       => IF listResult.resp.err = NoErr
          THEN /\ listResult.out.entities = Slice(listResult.resp.orders)
               /\ listResult.out.pagination = listResult.resp.pagination
               /\ listResult.out.err = NoErr
          ELSE /\ listResult.out.entities = NilSlice
               /\ listResult.out.pagination = NilPagination
               /\ listResult.out.err = listResult.resp.err
    /\ (listOp.pc = "returned" /\ listOp.op = "List")
       => IF listResult.resp.err = NoErr
          THEN /\ listResult.out.orders = Slice(listResult.resp.orders)
               /\ listResult.out.err = NoErr
          ELSE /\ listResult.out.orders = NilSlice
               /\ listResult.out.err = listResult.resp.err

\* a List call with a cursor as options failed while the resource held a record
C18_Witness ==
    /\ listOp = [op |-> "List", options |-> "c1", pc |-> "returned"]
    /\ listResult.resp = [orders |-> <<2>>, pagination |-> NilPagination, err |-> "e1"]
    /\ listResult.out = [orders |-> NilSlice, err |-> "e1"]

(***************************************************************************)
(* C19. After any fetch that returns no error, ListAll either continues    *)
(* with the next options or returns (records, no error); a successful      *)
(* fetch that comes back without page metadata is treated as "no more      *)
(* pages" and never leads to a fault.                                      *)
(***************************************************************************)
C19_DefinedOutcomeForEveryResponse ==
    \A p \in SingleCall :
        (log[p] # <<>> /\ log[p][Len(log[p])].resp.err = NoErr)
        => /\ pc[p] \in {"call", "wait", "returned"}
           /\ pc[p] = "returned" => ret[p].err = NoErr
           /\ log[p][Len(log[p])].resp.pagination.isnil
              => pc[p] = "returned" /\ ret[p].orders = Slice(collector[p])

====
